---- MODULE Spec2Model ----
(***************************************************************************)
(* The Redux store of the blog client (auth, blogs and comments slices),   *)
(* the async thunks that talk to the Supabase gateway, and the gateway's   *)
(* tables as far as the thunks query them.                                 *)
(*                                                                         *)
(* A thunk runs in steps: dispatch (the pending reducer, the synchronous   *)
(* part of the payload creator up to its first await, the request sent),   *)
(* the gateway answering each request, and the settle step (the fulfilled  *)
(* or rejected reducer).  Thunks in flight interleave freely.              *)
(***************************************************************************)
EXTENDS Integers, Sequences, FiniteSets, Bags, TLC

VARIABLES
    auth,        \* state.auth      (authSlice.ts AuthState)
    blogs,       \* state.blogs     (blogSlice BlogState)
    comments,    \* state.comments  (commentSlice.ts CommentState)
    dbBlogs,     \* gateway table 'blogs'    (a set of rows)
    dbComments,  \* gateway table 'comments' (a set of rows)
    dbClock,     \* gateway clock: the next id / created_at it assigns
    gwSession,   \* the session the gateway's auth client has persisted
    inflight,    \* bag of the thunk invocations dispatched and not yet settled
    dispatched,  \* number of thunks dispatched by the user so far
    last,        \* the Redux action reduced by the step that led here (none
                 \* when that step was the gateway's), its thunk and the
                 \* store before it
    blogView     \* BlogView: the route's id its effect last ran with (0 when
                 \* it never ran) and whether the page is mounted

gateway == <<dbBlogs, dbComments, dbClock, gwSession>>

vars == <<auth, blogs, comments, gateway, inflight, dispatched, last, blogView>>

----------------------------------------------------------------------------
(* Bounds of the model *)

\* posts the gateway holds when the client starts
InitBlogs == 6
\* thunks the user dispatches in one run; all of them may be in flight together
MaxOps == 2
\* largest table of the paging specification
PagingRows == 47

\* list calls that BlogList dispatches without waiting for the answers
MaxLists == 3

\* visits of BlogView
MaxViews == 1

----------------------------------------------------------------------------
(* null | T is modelled as a sequence of length 0 or 1 *)

Null == <<>>
Some(x) == <<x>>
IsNull(o) == o = <<>>
Get(o) == o[1]

\* the inputs of the forms and routes
Users == {"u1", "u2"}
Titles == {"B"}
ClientTimes == {100}
\* ids the routes and buttons name: the two newest posts the gateway starts
\* with (absent from the window until listed, from the table once deleted)
TargetIds == {InitBlogs - 1, InitBlogs}
\* the newest comment the gateway starts with
CommentIds == {2}
GatewayErrors == {"gateway failure"}
NoRowsError == "no rows returned"
NotAuthenticated == "User not authenticated"

\* Math.ceil(a / b) for b > 0 (also for negative a)
Ceil(a, b) == -((-a) \div b)

Min(a, b) == IF a <= b THEN a ELSE b

\* a row of 'blogs': title stands for the form's (title, content, image_url)
Blog(id, user, title, created, updated) ==
    [id |-> id, user_id |-> user, title |-> title,
     created_at |-> created, updated_at |-> updated]

\* a row of 'comments'
Comment(id, blogId, user, content, created, updated) ==
    [id |-> id, blog_id |-> blogId, user_id |-> user, content |-> content,
     created_at |-> created, updated_at |-> updated]

----------------------------------------------------------------------------
(* Array helpers of the reducers *)

\* Array.prototype.unshift
Unshift(arr, x) == <<x>> \o arr

\* Array.prototype.filter(e => e.id !== id)
RECURSIVE FilterOutId(_, _)
FilterOutId(arr, id) ==
    IF arr = <<>> THEN <<>>
    ELSE IF Head(arr).id # id
         THEN <<Head(arr)>> \o FilterOutId(Tail(arr), id)
         ELSE FilterOutId(Tail(arr), id)

\* Array.prototype.findIndex(e => e.id === id), 1-based; 0 stands for -1
FindIndex(arr, id) ==
    IF \E i \in 1..Len(arr) : arr[i].id = id
    THEN CHOOSE i \in 1..Len(arr) :
            arr[i].id = id /\ \A j \in 1..(i - 1) : arr[j].id # id
    ELSE 0

Ids(arr) == [i \in 1..Len(arr) |-> arr[i].id]

----------------------------------------------------------------------------
(* The gateway's queries *)

\* .order('created_at', { ascending: false })
RECURSIVE OrderByCreatedDesc(_)
OrderByCreatedDesc(rows) ==
    IF rows = {} THEN <<>>
    ELSE LET newest == CHOOSE r \in rows :
                          \A q \in rows : q.created_at <= r.created_at
         IN <<newest>> \o OrderByCreatedDesc(rows \ {newest})

\* .range(from, to): the rows at offsets from..to (0-based, inclusive) that exist
Range(arr, from, to) == SubSeq(arr, from + 1, Min(to + 1, Len(arr)))

----------------------------------------------------------------------------
(* Thunk invocations *)

\* the argument object of a thunk; a thunk reads only the fields it takes
NoArg ==
    [id |-> 0, page |-> 0, limit |-> 0, blogId |-> 0, title |-> "", now |-> 0,
     email |-> ""]

\* a thunk invocation: its type prefix, its argument, where it stands, the
\* number of requests it has sent to the gateway, the identity it captured
\* from getState(), and what the gateway answered so far
NewOp(type, arg) ==
    [type |-> type, arg |-> arg, stage |-> "query", calls |-> 1,
     userId |-> Null, count |-> Null, data |-> Null, error |-> Null]

NoOp == [NewOp("", NoArg) EXCEPT !.stage = "none", !.calls = 0]

----------------------------------------------------------------------------
(* blogSlice: state and reducers *)

blogInitialState ==
    [blogs |-> <<>>,
     currentBlog |-> Null,
     pagination |-> [page |-> 1, limit |-> 5, total |-> 0],
     loading |-> FALSE,
     error |-> Null]

setPage(state, payload) == [state EXCEPT !.pagination.page = payload]

clearCurrentBlog(state) == [state EXCEPT !.currentBlog = Null]

blogClearError(state) == [state EXCEPT !.error = Null]

\* every pending case of the slice has the same body
\* a pending reducer that keeps the previous error
blogPendingKeepingError(state) == [state EXCEPT !.loading = TRUE]

blogPending(state) == [state EXCEPT !.loading = TRUE, !.error = Null]

\* every rejected case of the slice has the same body
\* a rejected reducer that also drops what the cache held
blogRejectedClearing(state, payload) ==
    [state EXCEPT !.loading = FALSE, !.error = Some(payload),
                  !.blogs = <<>>, !.currentBlog = Null]

blogRejected(state, payload) ==
    [state EXCEPT !.loading = FALSE, !.error = Some(payload)]

\* a list reducer that merges the fetched page into the window
fetchBlogsFulfilledMerging(state, payload) ==
    [state EXCEPT !.loading = FALSE,
                  !.blogs = state.blogs \o payload.blogs,
                  !.pagination.total = payload.total]

fetchBlogsFulfilled(state, payload) ==
    [state EXCEPT !.loading = FALSE,
                  !.blogs = payload.blogs,
                  !.pagination.total = payload.total]

\* a get-by-id reducer that also puts the post into the window
fetchBlogByIdFulfilledIntoWindow(state, payload) ==
    [state EXCEPT !.loading = FALSE,
                  !.currentBlog = Some(payload),
                  !.blogs = Unshift(FilterOutId(state.blogs, payload.id), payload)]

fetchBlogByIdFulfilled(state, payload) ==
    [state EXCEPT !.loading = FALSE, !.currentBlog = Some(payload)]

\* a create reducer that appends the new post and leaves total to the next list
createBlogFulfilledAppending(state, payload) ==
    [state EXCEPT !.loading = FALSE,
                  !.blogs = Append(state.blogs, payload)]

createBlogFulfilled(state, payload) ==
    [state EXCEPT !.loading = FALSE,
                  !.blogs = Unshift(state.blogs, payload),
                  !.pagination.total = state.pagination.total + 1]

\* an update reducer that inserts the post when the window does not hold it
updateBlogFulfilledUpserting(state, payload) ==
    LET index == FindIndex(state.blogs, payload.id)
        matches == /\ ~IsNull(state.currentBlog)
                   /\ Get(state.currentBlog).id = payload.id
    IN [state EXCEPT !.loading = FALSE,
                     !.blogs = IF index # 0
                               THEN [state.blogs EXCEPT ![index] = payload]
                               ELSE Unshift(state.blogs, payload),
                     !.currentBlog = IF matches THEN Some(payload)
                                     ELSE state.currentBlog]

updateBlogFulfilled(state, payload) ==
    LET index == FindIndex(state.blogs, payload.id)
        withItem == IF index # 0
                    THEN [state.blogs EXCEPT ![index] = payload]
                    ELSE state.blogs
        matches == /\ ~IsNull(state.currentBlog)
                   /\ Get(state.currentBlog).id = payload.id
    IN [state EXCEPT !.loading = FALSE,
                     !.blogs = withItem,
                     !.currentBlog = IF matches THEN Some(payload)
                                     ELSE state.currentBlog]

\* a delete reducer that counts down only when the window held the post
deleteBlogFulfilledIfPresent(state, payload) ==
    LET matches == /\ ~IsNull(state.currentBlog)
                   /\ Get(state.currentBlog).id = payload
        present == FindIndex(state.blogs, payload) # 0
    IN [state EXCEPT !.loading = FALSE,
                     !.blogs = FilterOutId(state.blogs, payload),
                     !.pagination.total = IF present
                                          THEN state.pagination.total - 1
                                          ELSE state.pagination.total,
                     !.currentBlog = IF matches THEN Null
                                     ELSE state.currentBlog]

deleteBlogFulfilled(state, payload) ==
    LET matches == /\ ~IsNull(state.currentBlog)
                   /\ Get(state.currentBlog).id = payload
    IN [state EXCEPT !.loading = FALSE,
                     !.blogs = FilterOutId(state.blogs, payload),
                     !.pagination.total = state.pagination.total - 1,
                     !.currentBlog = IF matches THEN Null
                                     ELSE state.currentBlog]

\* BlogList: const totalPages = Math.ceil(pagination.total / pagination.limit)
totalPages(state) == Ceil(state.pagination.total, state.pagination.limit)

----------------------------------------------------------------------------
(* blogSlice: what the payload creators return *)

\* fetchBlogs: from and to of the requested range
\* a range that starts one page too far
RangeFromNextPage(arg) == arg.page * arg.limit

RangeFrom(arg) == (arg.page - 1) * arg.limit
RangeTo(arg) == RangeFrom(arg) + arg.limit - 1

\* data || []
OrEmpty(data) == IF IsNull(data) THEN <<>> ELSE Get(data)

\* count || 0
OrZero(count) == IF IsNull(count) \/ Get(count) = 0 THEN 0 ELSE Get(count)

\* fetchBlogs: return { blogs: data || [], total: count || 0 }
fetchBlogsPayload(op) == [blogs |-> OrEmpty(op.data), total |-> OrZero(op.count)]

\* .single(): the one row of the answer
SinglePayload(op) == Get(op.data)[1]

\* catch (error) { return rejectWithValue(error.message) }
RejectedPayload(op) == Get(op.error)

----------------------------------------------------------------------------
(* commentSlice: state and reducers *)

commentInitialState == [comments |-> <<>>, loading |-> FALSE, error |-> Null]

clearComments(state) == [state EXCEPT !.comments = <<>>]

commentClearError(state) == [state EXCEPT !.error = Null]

\* every pending case of the slice has the same body
commentPending(state) == [state EXCEPT !.loading = TRUE, !.error = Null]

\* a rejected case that records the error and leaves the flag set
commentRejectedStillLoading(state, payload) == [state EXCEPT !.error = Some(payload)]

\* every rejected case of the slice has the same body
commentRejected(state, payload) ==
    [state EXCEPT !.loading = FALSE, !.error = Some(payload)]

\* a comment list reducer that keeps the comments it does not receive
fetchCommentsFulfilledMerging(state, payload) ==
    [state EXCEPT !.loading = FALSE,
                  !.comments = payload \o SelectSeq(state.comments,
                                   LAMBDA c : FindIndex(payload, c.id) = 0)]

fetchCommentsFulfilled(state, payload) ==
    [state EXCEPT !.loading = FALSE, !.comments = payload]

createCommentFulfilled(state, payload) ==
    [state EXCEPT !.loading = FALSE,
                  !.comments = Unshift(state.comments, payload)]

\* a comment update reducer that inserts the comment when it is not held
updateCommentFulfilledUpserting(state, payload) ==
    LET index == FindIndex(state.comments, payload.id)
    IN [state EXCEPT !.loading = FALSE,
                     !.comments = IF index # 0
                                  THEN [state.comments EXCEPT ![index] = payload]
                                  ELSE Unshift(state.comments, payload)]

updateCommentFulfilled(state, payload) ==
    LET index == FindIndex(state.comments, payload.id)
    IN [state EXCEPT !.loading = FALSE,
                     !.comments = IF index # 0
                                  THEN [state.comments EXCEPT ![index] = payload]
                                  ELSE state.comments]

deleteCommentFulfilled(state, payload) ==
    [state EXCEPT !.loading = FALSE,
                  !.comments = FilterOutId(state.comments, payload)]

----------------------------------------------------------------------------
(* authSlice: state and reducers *)

authInitialState ==
    [user |-> Null, session |-> Null, isAuthenticated |-> FALSE,
     loading |-> FALSE, error |-> Null]

authClearError(state) == [state EXCEPT !.error = Null]

\* registerUser.pending and loginUser.pending
authPending(state) == [state EXCEPT !.loading = TRUE, !.error = Null]

\* a logout that empties the session store before the gateway answers
logoutUserPendingOptimistic(state) ==
    [state EXCEPT !.loading = TRUE, !.user = Null, !.session = Null,
                  !.isAuthenticated = FALSE]

\* logoutUser.pending sets loading only
logoutUserPending(state) == [state EXCEPT !.loading = TRUE]

\* a fulfilled reducer that takes any answer as a sign-in
authFulfilledSignedIn(state, payload) ==
    [state EXCEPT !.loading = FALSE,
                  !.user = payload.user,
                  !.session = payload.session,
                  !.isAuthenticated = TRUE]

\* registerUser.fulfilled and loginUser.fulfilled
authFulfilled(state, payload) ==
    [state EXCEPT !.loading = FALSE,
                  !.user = payload.user,
                  !.session = payload.session,
                  !.isAuthenticated = ~IsNull(payload.session)]

\* a fulfilled logout that forgets the user and keeps the session
logoutUserFulfilledKeepingSession(state) ==
    [state EXCEPT !.loading = FALSE, !.user = Null, !.isAuthenticated = FALSE]

logoutUserFulfilled(state) ==
    [state EXCEPT !.loading = FALSE, !.user = Null, !.session = Null,
                  !.isAuthenticated = FALSE]

\* registerUser.rejected, loginUser.rejected and logoutUser.rejected
authRejected(state, payload) ==
    [state EXCEPT !.loading = FALSE, !.error = Some(payload)]

\* a checkSession that keeps an identity the store already holds
checkSessionFulfilledKeeping(state, payload) ==
    IF IsNull(state.user)
    THEN [state EXCEPT !.user = payload.user,
                       !.session = payload.session,
                       !.isAuthenticated = ~IsNull(payload.session)]
    ELSE state

\* checkSession.fulfilled leaves loading alone; checkSession has no pending
\* and no rejected case
checkSessionFulfilled(state, payload) ==
    [state EXCEPT !.user = payload.user,
                  !.session = payload.session,
                  !.isAuthenticated = ~IsNull(payload.session)]

\* checkSession: const { data: { session }, error } = ...; return { user:
\* session?.user || null, session: session }
checkSessionPayload(op) ==
    LET session == Get(op.data)[1].session
    IN [user |-> IF IsNull(session) THEN Null ELSE Some(Get(session).user),
        session |-> session]

\* const userId = state.auth.user?.id
userIdOf(authState) ==
    IF IsNull(authState.user) THEN Null ELSE Some(Get(authState.user).id)

----------------------------------------------------------------------------
(* The initial state: the store as configured, the gateway holding what
   earlier sessions left, and App mounted, whose effect has dispatched
   checkSession() *)

InitialBlogs(n) ==
    {Blog(i, IF i % 2 = 1 THEN "u1" ELSE "u2", "A", i, i) : i \in 1..n}

\* the comments under the newest initial post
InitialComments(n) ==
    {Comment(i, n, IF i % 2 = 1 THEN "u2" ELSE "u1", "A", i, i) : i \in 1..Min(n, 2)}

Store(a, b, c) == [auth |-> a, blogs |-> b, comments |-> c]

\* the step reduces the action `type` of thunk `op`
Reduced(type, op) ==
    last' = [type |-> type, op |-> op, pre |-> Store(auth, blogs, comments)]

NoLast ==
    [type |-> "", op |-> NoOp,
     pre |-> Store(authInitialState, blogInitialState, commentInitialState)]

SessionOf(user) == [user |-> [id |-> user], access_token |-> "token"]

checkSession == NewOp("auth/checkSession", NoArg)

\* no BlogView was rendered yet
NoView == [id |-> 0, mounted |-> FALSE]

InitClient ==
    /\ auth = authInitialState
    /\ blogs = blogInitialState
    /\ comments = commentInitialState
    /\ inflight = SetToBag({checkSession})
    /\ dispatched = 0
    /\ blogView = NoView
    /\ last = [NoLast EXCEPT !.type = "auth/checkSession/pending",
                             !.op = checkSession]

Init ==
    /\ InitClient
    /\ dbBlogs = InitialBlogs(InitBlogs)
    /\ dbComments = InitialComments(InitBlogs)
    /\ dbClock = InitBlogs + 1
    /\ gwSession = Some(SessionOf("u1"))

----------------------------------------------------------------------------
(* Dispatching a thunk: the pending action is reduced, then the payload
   creator runs up to its first await *)

Launch(op) ==
    /\ inflight' = inflight (+) SetToBag({op})
    /\ Reduced(op.type \o "/pending", op)

\* BlogList's effect: dispatch(fetchBlogs({ page, limit })) with the cached page
fetchBlogs(page, limit) ==
    [NewOp("blogs/fetchBlogs", [NoArg EXCEPT !.page = page, !.limit = limit])
        EXCEPT !.stage = "count"]

BlogListEffect ==
    /\ Launch(fetchBlogs(blogs.pagination.page, blogs.pagination.limit))
    /\ blogs' = blogPending(blogs)
    /\ UNCHANGED <<auth, comments, gateway>>

\* a page change that hands any page to setPage
handlePageChangeUnguarded(newPage) ==
    /\ newPage # blogs.pagination.page
    /\ Launch(fetchBlogs(newPage, blogs.pagination.limit))
    /\ blogs' = blogPending(setPage(blogs, newPage))
    /\ UNCHANGED <<auth, comments, gateway>>

\* BlogList.handlePageChange, then the effect that the changed page triggers
handlePageChange(newPage) ==
    /\ newPage >= 1 /\ newPage <= totalPages(blogs)
    /\ newPage # blogs.pagination.page
    /\ Launch(fetchBlogs(newPage, blogs.pagination.limit))
    /\ blogs' = blogPending(setPage(blogs, newPage))
    /\ UNCHANGED <<auth, comments, gateway>>

\* the Previous and Next buttons
PageChange ==
    \E newPage \in {blogs.pagination.page - 1, blogs.pagination.page + 1} :
        handlePageChange(newPage)

fetchBlogById(id) ==
    /\ Launch(NewOp("blogs/fetchBlogById", [NoArg EXCEPT !.id = id]))
    /\ blogs' = blogPending(blogs)
    /\ UNCHANGED <<auth, comments, gateway>>

\* a create that sends the insert without looking at the session store
CreateOpUnchecked(type, arg, userId) ==
    [NewOp(type, arg) EXCEPT
        !.userId = IF IsNull(userId) THEN Some("anonymous") ELSE userId]

\* createBlog and createComment: const userId = state.auth.user?.id; if
\* (!userId) throw new Error('User not authenticated'), caught at once
CreateOp(type, arg, userId) ==
    IF IsNull(userId)
    THEN [NewOp(type, arg) EXCEPT !.stage = "thrown", !.calls = 0,
                                  !.error = Some(NotAuthenticated)]
    ELSE [NewOp(type, arg) EXCEPT !.userId = userId]

createBlog(title) ==
    /\ Launch(CreateOp("blogs/createBlog", [NoArg EXCEPT !.title = title],
                       userIdOf(auth)))
    /\ blogs' = blogPending(blogs)
    /\ UNCHANGED <<auth, comments, gateway>>

\* updateBlog sends updated_at: new Date().toISOString(), the client's clock
updateBlog(id, title, now) ==
    /\ Launch(NewOp("blogs/updateBlog",
                    [NoArg EXCEPT !.id = id, !.title = title, !.now = now]))
    /\ blogs' = blogPending(blogs)
    /\ UNCHANGED <<auth, comments, gateway>>

\* a delete that refuses, before any request, a cached post of another owner
deleteBlogOwnerOnly(id) ==
    LET owned == \A i \in 1..Len(blogs.blogs) :
                    blogs.blogs[i].id = id
                       => userIdOf(auth) = Some(blogs.blogs[i].user_id)
        op == NewOp("blogs/deleteBlog", [NoArg EXCEPT !.id = id])
    IN /\ Launch(IF owned THEN op
                 ELSE [op EXCEPT !.stage = "thrown", !.calls = 0,
                                 !.error = Some("Not the owner")])
       /\ blogs' = blogPending(blogs)
       /\ UNCHANGED <<auth, comments, gateway>>

deleteBlog(id) ==
    /\ Launch(NewOp("blogs/deleteBlog", [NoArg EXCEPT !.id = id]))
    /\ blogs' = blogPending(blogs)
    /\ UNCHANGED <<auth, comments, gateway>>

fetchComments(blogId) ==
    /\ Launch(NewOp("comments/fetchComments", [NoArg EXCEPT !.blogId = blogId]))
    /\ comments' = commentPending(comments)
    /\ UNCHANGED <<auth, blogs, gateway>>

createComment(blogId, content) ==
    /\ Launch(CreateOp("comments/createComment",
                       [NoArg EXCEPT !.blogId = blogId, !.title = content],
                       userIdOf(auth)))
    /\ comments' = commentPending(comments)
    /\ UNCHANGED <<auth, blogs, gateway>>

updateComment(id, content, now) ==
    /\ Launch(NewOp("comments/updateComment",
                    [NoArg EXCEPT !.id = id, !.title = content, !.now = now]))
    /\ comments' = commentPending(comments)
    /\ UNCHANGED <<auth, blogs, gateway>>

deleteComment(id) ==
    /\ Launch(NewOp("comments/deleteComment", [NoArg EXCEPT !.id = id]))
    /\ comments' = commentPending(comments)
    /\ UNCHANGED <<auth, blogs, gateway>>

----------------------------------------------------------------------------
(* The gateway answers a request *)

Advance(op, next) == inflight' = (inflight (-) SetToBag({op})) (+) SetToBag({next})

Answered(op, data) == [op EXCEPT !.stage = "answered", !.data = data]

Failed(op, message) == [op EXCEPT !.stage = "answered", !.error = Some(message)]

\* a failure after which the request is sent once more
GatewayFailsRetrying(op) ==
    /\ op.stage = "query"
    /\ \E message \in GatewayErrors :
          Advance(op, IF op.calls < 3 THEN [op EXCEPT !.calls = op.calls + 1]
                      ELSE Failed(op, message))
    /\ UNCHANGED <<auth, blogs, comments, gateway, dispatched, blogView>>
    /\ last' = NoLast

\* any request may fail at the gateway, which then changes nothing
GatewayFails(op) ==
    /\ op.stage = "query"
    /\ \E message \in GatewayErrors : Advance(op, Failed(op, message))
    /\ UNCHANGED <<auth, blogs, comments, gateway, dispatched, blogView>>
    /\ last' = NoLast

\* a count query whose failure ends the call before the list query is sent
GatewayCountFatal(op) ==
    /\ op.type = "blogs/fetchBlogs" /\ op.stage = "count"
    /\ \/ Advance(op, [op EXCEPT !.stage = "query",
                                 !.count = Some(Cardinality(dbBlogs)),
                                 !.calls = op.calls + 1])
       \/ \E message \in GatewayErrors : Advance(op, Failed(op, message))
    /\ UNCHANGED <<auth, blogs, comments, gateway, dispatched, blogView>>
    /\ last' = NoLast

\* fetchBlogs, first await: const { count } = await ...select('*', { count:
\* 'exact', head: true }); the error of this answer is never read, so a failed
\* count is count = null; the payload creator goes on to the list query
GatewayCount(op) ==
    /\ op.type = "blogs/fetchBlogs" /\ op.stage = "count"
    /\ \E count \in {Some(Cardinality(dbBlogs)), Null} :
          Advance(op, [op EXCEPT !.stage = "query", !.count = count,
                               !.calls = op.calls + 1])
    /\ UNCHANGED <<auth, blogs, comments, gateway, dispatched, blogView>>
    /\ last' = NoLast

\* fetchBlogs, second await: the rows of the range, newest first; the answer
\* may also carry no data and no error
GatewayList(op) ==
    /\ op.type = "blogs/fetchBlogs" /\ op.stage = "query"
    /\ \E data \in {Some(Range(OrderByCreatedDesc(dbBlogs),
                               RangeFrom(op.arg), RangeTo(op.arg))), Null} :
          Advance(op, Answered(op, data))
    /\ UNCHANGED <<auth, blogs, comments, gateway, dispatched, blogView>>
    /\ last' = NoLast

\* .eq('id', id).single(): the row, or an error when there is none
GatewaySingle(op, table) ==
    LET rows == {r \in table : r.id = op.arg.id}
    IN IF rows = {}
       THEN Advance(op, Failed(op, NoRowsError))
       ELSE Advance(op, Answered(op, Some(<<CHOOSE r \in rows : TRUE>>)))

GatewayGetBlog(op) ==
    /\ op.type = "blogs/fetchBlogById" /\ op.stage = "query"
    /\ GatewaySingle(op, dbBlogs)
    /\ UNCHANGED <<auth, blogs, comments, gateway, dispatched, blogView>>
    /\ last' = NoLast

\* .insert([{ title, content, image_url, user_id }]).select().single(): the
\* gateway assigns the id and both timestamps
GatewayInsertBlog(op) ==
    /\ op.type = "blogs/createBlog" /\ op.stage = "query"
    /\ LET row == Blog(dbClock, Get(op.userId), op.arg.title, dbClock, dbClock)
       IN /\ dbBlogs' = dbBlogs \cup {row}
          /\ Advance(op, Answered(op, Some(<<row>>)))
    /\ dbClock' = dbClock + 1
    /\ UNCHANGED <<auth, blogs, comments, dbComments, gwSession, dispatched, blogView>>
    /\ last' = NoLast

\* .update({ ..., updated_at }).eq('id', id).select().single(): the updated
\* row, or an error when no row has the id
UpdatedRow(old, arg, field) ==
    [[old EXCEPT ![field] = arg.title] EXCEPT !.updated_at = arg.now]

GatewayUpdateBlog(op) ==
    /\ op.type = "blogs/updateBlog" /\ op.stage = "query"
    /\ LET rows == {r \in dbBlogs : r.id = op.arg.id}
       IN IF rows = {}
          THEN /\ Advance(op, Failed(op, NoRowsError))
               /\ UNCHANGED dbBlogs
          ELSE LET old == CHOOSE r \in rows : TRUE
                   new == UpdatedRow(old, op.arg, "title")
               IN /\ dbBlogs' = (dbBlogs \ {old}) \cup {new}
                  /\ Advance(op, Answered(op, Some(<<new>>)))
    /\ UNCHANGED <<auth, blogs, comments, dbComments, dbClock, gwSession,
                   dispatched, blogView>>
    /\ last' = NoLast

\* .delete().eq('id', id): no error when no row has the id
GatewayDeleteBlog(op) ==
    /\ op.type = "blogs/deleteBlog" /\ op.stage = "query"
    /\ dbBlogs' = {r \in dbBlogs : r.id # op.arg.id}
    /\ Advance(op, Answered(op, Null))
    /\ UNCHANGED <<auth, blogs, comments, dbComments, dbClock, gwSession,
                   dispatched, blogView>>
    /\ last' = NoLast

\* .eq('blog_id', blogId).order('created_at', { ascending: false })
GatewayListComments(op) ==
    /\ op.type = "comments/fetchComments" /\ op.stage = "query"
    /\ \E data \in {Some(OrderByCreatedDesc(
                            {r \in dbComments : r.blog_id = op.arg.blogId})),
                    Null} :
          Advance(op, Answered(op, data))
    /\ UNCHANGED <<auth, blogs, comments, gateway, dispatched, blogView>>
    /\ last' = NoLast

GatewayInsertComment(op) ==
    /\ op.type = "comments/createComment" /\ op.stage = "query"
    /\ LET row == Comment(dbClock, op.arg.blogId, Get(op.userId), op.arg.title,
                          dbClock, dbClock)
       IN /\ dbComments' = dbComments \cup {row}
          /\ Advance(op, Answered(op, Some(<<row>>)))
    /\ dbClock' = dbClock + 1
    /\ UNCHANGED <<auth, blogs, comments, dbBlogs, gwSession, dispatched, blogView>>
    /\ last' = NoLast

GatewayUpdateComment(op) ==
    /\ op.type = "comments/updateComment" /\ op.stage = "query"
    /\ LET rows == {r \in dbComments : r.id = op.arg.id}
       IN IF rows = {}
          THEN /\ Advance(op, Failed(op, NoRowsError))
               /\ UNCHANGED dbComments
          ELSE LET old == CHOOSE r \in rows : TRUE
                   new == UpdatedRow(old, op.arg, "content")
               IN /\ dbComments' = (dbComments \ {old}) \cup {new}
                  /\ Advance(op, Answered(op, Some(<<new>>)))
    /\ UNCHANGED <<auth, blogs, comments, dbBlogs, dbClock, gwSession,
                   dispatched, blogView>>
    /\ last' = NoLast

GatewayDeleteComment(op) ==
    /\ op.type = "comments/deleteComment" /\ op.stage = "query"
    /\ dbComments' = {r \in dbComments : r.id # op.arg.id}
    /\ Advance(op, Answered(op, Null))
    /\ UNCHANGED <<auth, blogs, comments, dbBlogs, dbClock, gwSession,
                   dispatched, blogView>>
    /\ last' = NoLast

\* supabase.auth.getSession(): the persisted session, possibly none
GatewayGetSession(op) ==
    /\ op.type = "auth/checkSession" /\ op.stage = "query"
    /\ Advance(op, Answered(op, Some(<<[session |-> gwSession]>>)))
    /\ UNCHANGED <<auth, blogs, comments, gateway, dispatched, blogView>>
    /\ last' = NoLast

----------------------------------------------------------------------------
(* A thunk settles: its fulfilled or its rejected action is reduced *)

Settled(op) == op.stage \in {"answered", "thrown"}

Finish(op) ==
    /\ inflight' = inflight (-) SetToBag({op})
    /\ Reduced(op.type \o (IF IsNull(op.error) THEN "/fulfilled" ELSE "/rejected"), op)

\* a reconciliation that drops the answer of a list for a page other than
\* the current one
blogFulfilledCurrentPage(state, op) ==
    CASE op.type = "blogs/fetchBlogs" ->
            IF op.arg.page = state.pagination.page
            THEN fetchBlogsFulfilled(state, fetchBlogsPayload(op))
            ELSE [state EXCEPT !.loading = FALSE]
      [] op.type = "blogs/fetchBlogById" -> fetchBlogByIdFulfilled(state, SinglePayload(op))
      [] op.type = "blogs/createBlog" -> createBlogFulfilled(state, SinglePayload(op))
      [] op.type = "blogs/updateBlog" -> updateBlogFulfilled(state, SinglePayload(op))
      [] op.type = "blogs/deleteBlog" -> deleteBlogFulfilled(state, op.arg.id)

blogFulfilled(state, op) ==
    CASE op.type = "blogs/fetchBlogs" -> fetchBlogsFulfilled(state, fetchBlogsPayload(op))
      [] op.type = "blogs/fetchBlogById" -> fetchBlogByIdFulfilled(state, SinglePayload(op))
      [] op.type = "blogs/createBlog" -> createBlogFulfilled(state, SinglePayload(op))
      [] op.type = "blogs/updateBlog" -> updateBlogFulfilled(state, SinglePayload(op))
      [] op.type = "blogs/deleteBlog" -> deleteBlogFulfilled(state, op.arg.id)

BlogTypes == {"blogs/fetchBlogs", "blogs/fetchBlogById", "blogs/createBlog",
              "blogs/updateBlog", "blogs/deleteBlog"}

\* a reconciliation that looks at the session store again before it applies
\* a created post
BlogSettleRechecking(op) ==
    LET signedOut == op.type = "blogs/createBlog" /\ IsNull(auth.user)
    IN /\ op.type \in BlogTypes /\ Settled(op)
       /\ Finish(op)
       /\ blogs' = IF IsNull(op.error) /\ ~signedOut THEN blogFulfilled(blogs, op)
                   ELSE blogRejected(blogs, IF IsNull(op.error) THEN NotAuthenticated
                                            ELSE RejectedPayload(op))
       /\ UNCHANGED <<auth, comments, gateway, dispatched, blogView>>

BlogSettle(op) ==
    /\ op.type \in BlogTypes /\ Settled(op)
    /\ Finish(op)
    /\ blogs' = IF IsNull(op.error) THEN blogFulfilled(blogs, op)
                ELSE blogRejected(blogs, RejectedPayload(op))
    /\ UNCHANGED <<auth, comments, gateway, dispatched, blogView>>

commentFulfilled(state, op) ==
    CASE op.type = "comments/fetchComments" -> fetchCommentsFulfilled(state, OrEmpty(op.data))
      [] op.type = "comments/createComment" -> createCommentFulfilled(state, SinglePayload(op))
      [] op.type = "comments/updateComment" -> updateCommentFulfilled(state, SinglePayload(op))
      [] op.type = "comments/deleteComment" -> deleteCommentFulfilled(state, op.arg.id)

CommentTypes == {"comments/fetchComments", "comments/createComment",
                 "comments/updateComment", "comments/deleteComment"}

CommentSettle(op) ==
    /\ op.type \in CommentTypes /\ Settled(op)
    /\ Finish(op)
    /\ comments' = IF IsNull(op.error) THEN commentFulfilled(comments, op)
                   ELSE commentRejected(comments, RejectedPayload(op))
    /\ UNCHANGED <<auth, blogs, gateway, dispatched, blogView>>

\* the auth slice has no case for checkSession.rejected
CheckSessionSettle(op) ==
    /\ op.type = "auth/checkSession" /\ Settled(op)
    /\ Finish(op)
    /\ auth' = IF IsNull(op.error)
               THEN checkSessionFulfilled(auth, checkSessionPayload(op))
               ELSE auth
    /\ UNCHANGED <<blogs, comments, gateway, dispatched, blogView>>

----------------------------------------------------------------------------
(* Plain reducers *)

ClearCurrentBlog ==
    /\ blogs' = clearCurrentBlog(blogs)
    /\ Reduced("blogs/clearCurrentBlog", NoOp)
    /\ UNCHANGED <<auth, comments, gateway, inflight, dispatched, blogView>>

BlogClearError ==
    /\ blogs' = blogClearError(blogs)
    /\ Reduced("blogs/clearError", NoOp)
    /\ UNCHANGED <<auth, comments, gateway, inflight, dispatched, blogView>>

ClearComments ==
    /\ comments' = clearComments(comments)
    /\ Reduced("comments/clearComments", NoOp)
    /\ UNCHANGED <<auth, blogs, gateway, inflight, dispatched, blogView>>

CommentClearError ==
    /\ comments' = commentClearError(comments)
    /\ Reduced("comments/clearError", NoOp)
    /\ UNCHANGED <<auth, blogs, gateway, inflight, dispatched, blogView>>

----------------------------------------------------------------------------
(* The specifications *)

\* a thunk the user dispatches counts against the run's budget
Budgeted(A) ==
    dispatched < MaxOps /\ A /\ dispatched' = dispatched + 1 /\ UNCHANGED blogView

\* a thunk dispatched only when nothing is in flight
Sequential(A) == inflight = EmptyBag /\ A /\ UNCHANGED <<dispatched, blogView>>

Gateway(Step(_)) == \E op \in BagToSet(inflight) : Step(op)

Next ==
    \/ Budgeted(BlogListEffect)
    \/ Budgeted(PageChange)
    \/ \E id \in TargetIds : Budgeted(fetchBlogById(id))
    \/ \E title \in Titles : Budgeted(createBlog(title))
    \/ \E id \in TargetIds, title \in Titles, now \in ClientTimes :
          Budgeted(updateBlog(id, title, now))
    \/ \E id \in TargetIds : Budgeted(deleteBlog(id))
    \/ Budgeted(fetchComments(InitBlogs))
    \/ \E content \in Titles : Budgeted(createComment(InitBlogs, content))
    \/ \E id \in CommentIds, content \in Titles, now \in ClientTimes :
          Budgeted(updateComment(id, content, now))
    \/ \E id \in CommentIds : Budgeted(deleteComment(id))
    \/ Gateway(GatewayFails)
    \/ Gateway(GatewayCount)
    \/ Gateway(GatewayList)
    \/ Gateway(GatewayGetBlog)
    \/ Gateway(GatewayInsertBlog)
    \/ Gateway(GatewayUpdateBlog)
    \/ Gateway(GatewayDeleteBlog)
    \/ Gateway(GatewayListComments)
    \/ Gateway(GatewayInsertComment)
    \/ Gateway(GatewayUpdateComment)
    \/ Gateway(GatewayDeleteComment)
    \/ Gateway(GatewayGetSession)
    \/ Gateway(BlogSettle)
    \/ Gateway(CommentSettle)
    \/ Gateway(CheckSessionSettle)

Spec == Init /\ [][Next]_vars

----------------------------------------------------------------------------
(* Paging through a table of any size up to PagingRows: BlogList alone, one
   list call at a time, nobody writing *)

PagingInit ==
    /\ InitClient
    /\ \E n \in 0..PagingRows : dbBlogs = InitialBlogs(n)
    /\ dbComments = {}
    /\ dbClock = PagingRows + 1
    /\ gwSession = Null

PagingNext ==
    \/ Sequential(BlogListEffect)
    \/ Sequential(PageChange)
    \/ Gateway(GatewayFails)
    \/ Gateway(GatewayCount)
    \/ Gateway(GatewayList)
    \/ Gateway(GatewayGetSession)
    \/ Gateway(BlogSettle)
    \/ Gateway(CheckSessionSettle)

PagingSpec == PagingInit /\ [][PagingNext]_vars

----------------------------------------------------------------------------
(* Properties of the post cache and the comment cache *)

\* the store before the action that led to this state
Pre == last.pre

\* the row a single-row answer carries
Returned == last.op.data[1][1]

HasId(arr, id) == \E i \in 1..Len(arr) : arr[i].id = id

\* C1: when a fetchBlogs call is fulfilled, the window is exactly the
\* sequence of posts the gateway returned for that call (empty when it
\* returned no data) and total is the count that call read (0 when the count
\* query gave none); no post of the previous window that is not in the
\* returned slice remains.
C1_ListReplacesWindow ==
    last.type = "blogs/fetchBlogs/fulfilled" =>
        LET returned == IF last.op.data = <<>> THEN <<>> ELSE last.op.data[1]
        IN /\ blogs.blogs = returned
           /\ blogs.pagination.total =
                 (IF last.op.count = <<>> THEN 0 ELSE last.op.count[1])
           /\ \A i \in 1..Len(Pre.blogs.blogs) :
                 ~HasId(returned, Pre.blogs.blogs[i].id)
                    => ~HasId(blogs.blogs, Pre.blogs.blogs[i].id)

\* page 2 arrives over the window of page 1: none of the five posts stays
C1_Witness ==
    /\ last.type = "blogs/fetchBlogs/fulfilled"
    /\ last.op.arg.page = 2
    /\ Len(Pre.blogs.blogs) = 5
    /\ Len(blogs.blogs) = 1
    /\ ~HasId(Pre.blogs.blogs, blogs.blogs[1].id)
    /\ blogs.pagination.total = InitBlogs

\* C2: after a successful create the created item is at index 0, the
\* collection is one longer and every previous item follows in its previous
\* order; for posts total is one more. It holds for createBlog on the window
\* and for createComment on the comment collection.
C2_CreatePrepends ==
    /\ last.type = "blogs/createBlog/fulfilled" =>
          /\ Len(blogs.blogs) = Len(Pre.blogs.blogs) + 1
          /\ blogs.blogs[1] = Returned
          /\ \A i \in 1..Len(Pre.blogs.blogs) : blogs.blogs[i + 1] = Pre.blogs.blogs[i]
          /\ blogs.pagination.total = Pre.blogs.pagination.total + 1
    /\ last.type = "comments/createComment/fulfilled" =>
          /\ Len(comments.comments) = Len(Pre.comments.comments) + 1
          /\ comments.comments[1] = Returned
          /\ \A i \in 1..Len(Pre.comments.comments) :
                comments.comments[i + 1] = Pre.comments.comments[i]

\* a post created over a listed window of 5: the window holds 6, total is one more
C2_Witness ==
    /\ last.type = "blogs/createBlog/fulfilled"
    /\ Len(Pre.blogs.blogs) = 5
    /\ Len(blogs.blogs) = 6
    /\ blogs.blogs[1].id = InitBlogs + 1
    /\ Pre.blogs.pagination.total = InitBlogs
    /\ blogs.pagination.total = InitBlogs + 1

\* C3: a createBlog or createComment dispatched while auth.user is null sends
\* no request to the gateway and is rejected with 'User not authenticated',
\* which lands in the error field of that cache; the window, total, focused
\* post and comment collection are what they were.
C3_CreateNeedsIdentity ==
    /\ /\ last.type \in {"blogs/createBlog/pending", "comments/createComment/pending"}
       /\ IsNull(Pre.auth.user)
       => /\ last.op.stage = "thrown"
          /\ last.op.calls = 0
          /\ last.op.error = Some(NotAuthenticated)
    /\ last.type = "blogs/createBlog/rejected" /\ last.op.stage = "thrown"
       => /\ last.op.calls = 0
          /\ blogs.error = Some("User not authenticated")
          /\ blogs.blogs = Pre.blogs.blogs
          /\ blogs.pagination = Pre.blogs.pagination
          /\ blogs.currentBlog = Pre.blogs.currentBlog
          /\ comments = Pre.comments
    /\ last.type = "comments/createComment/rejected" /\ last.op.stage = "thrown"
       => /\ last.op.calls = 0
          /\ comments.error = Some("User not authenticated")
          /\ comments.comments = Pre.comments.comments
          /\ blogs = Pre.blogs

\* a createBlog of a signed-out viewer is rejected over a listed window
C3_Witness ==
    /\ last.type = "blogs/createBlog/rejected"
    /\ last.op.stage = "thrown"
    /\ IsNull(auth.user)
    /\ Len(blogs.blogs) = 5
    /\ blogs.pagination.total = InitBlogs
    /\ blogs.error = Some(NotAuthenticated)

\* C4: an updateBlog, deleteBlog, updateComment or deleteComment dispatched
\* while auth.user is null sends no request to the gateway and fails with an
\* authorization error.
C4_WriteNeedsIdentity ==
    /\ last.type \in {"blogs/updateBlog/pending", "blogs/deleteBlog/pending",
                      "comments/updateComment/pending",
                      "comments/deleteComment/pending"}
    /\ IsNull(Pre.auth.user)
    => /\ last.op.stage = "thrown"
       /\ last.op.calls = 0
       /\ last.op.error = Some(NotAuthenticated)

\* C5: when a deleteBlog of id is fulfilled, no entry of the window has that
\* id, the other entries keep their order, total is one less whether or not
\* the window held the id, and the focused post is cleared if and only if its
\* id is the deleted one.
C5_DeleteRemoves ==
    last.type = "blogs/deleteBlog/fulfilled" =>
        LET id == last.op.arg.id
            keep(b) == b.id # id
        IN /\ ~HasId(blogs.blogs, id)
           /\ blogs.blogs = SelectSeq(Pre.blogs.blogs, keep)
           /\ blogs.pagination.total = Pre.blogs.pagination.total - 1
           /\ blogs.currentBlog =
                 (IF Pre.blogs.currentBlog # <<>> /\ Pre.blogs.currentBlog[1].id = id
                  THEN <<>> ELSE Pre.blogs.currentBlog)

\* a delete of a post the listed window does not hold: the 5 entries stay, total drops
C5_Witness ==
    /\ last.type = "blogs/deleteBlog/fulfilled"
    /\ Len(Pre.blogs.blogs) = 5
    /\ ~HasId(Pre.blogs.blogs, last.op.arg.id)
    /\ blogs.blogs = Pre.blogs.blogs
    /\ Pre.blogs.pagination.total = InitBlogs
    /\ blogs.pagination.total = InitBlogs - 1

\* C6: when an updateBlog is fulfilled, the window has the same length and
\* the same ids in the same order, the entry with the updated id (if the
\* window holds one) is the returned post and every other entry is unchanged,
\* the focused post is replaced if and only if its id matches, and total is
\* unchanged.
C6_UpdateReplaces ==
    last.type = "blogs/updateBlog/fulfilled" =>
        /\ Len(blogs.blogs) = Len(Pre.blogs.blogs)
        /\ Ids(blogs.blogs) = Ids(Pre.blogs.blogs)
        /\ \A i \in 1..Len(blogs.blogs) :
              blogs.blogs[i] = (IF Pre.blogs.blogs[i].id = Returned.id
                                THEN Returned ELSE Pre.blogs.blogs[i])
        /\ blogs.currentBlog =
              (IF Pre.blogs.currentBlog # <<>> /\ Pre.blogs.currentBlog[1].id = Returned.id
               THEN <<Returned>> ELSE Pre.blogs.currentBlog)
        /\ blogs.pagination = Pre.blogs.pagination

\* the newest post of a listed window is updated in place
C6_Witness ==
    /\ last.type = "blogs/updateBlog/fulfilled"
    /\ Len(blogs.blogs) = 5
    /\ Pre.blogs.blogs[1].id = InitBlogs
    /\ Pre.blogs.blogs[1].title = "A"
    /\ blogs.blogs[1].id = InitBlogs
    /\ blogs.blogs[1].title = "B"

\* C7: when an operation of the post cache or the comment cache ends in a
\* failure the gateway reported, that cache is what it was just before except
\* that loading is false and error is the gateway's message as given; window,
\* total, page, focused post and comment collection are unchanged.
C7_FailureKeepsCollections ==
    /\ last.type \in {t \o "/rejected" : t \in BlogTypes} /\ last.op.stage = "answered"
       => /\ blogs = [Pre.blogs EXCEPT !.loading = FALSE, !.error = last.op.error]
          /\ last.op.error[1] \in GatewayErrors \cup {NoRowsError}
          /\ comments = Pre.comments
    /\ last.type \in {t \o "/rejected" : t \in CommentTypes} /\ last.op.stage = "answered"
       => /\ comments = [Pre.comments EXCEPT !.loading = FALSE, !.error = last.op.error]
          /\ last.op.error[1] \in GatewayErrors \cup {NoRowsError}
          /\ blogs = Pre.blogs

\* a list fails at the gateway over a listed window, which stays
C7_Witness ==
    /\ last.type = "blogs/fetchBlogs/rejected"
    /\ last.op.stage = "answered"
    /\ Len(blogs.blogs) = 5
    /\ blogs.pagination.total = InitBlogs
    /\ Pre.blogs.loading
    /\ ~blogs.loading
    /\ blogs.error = Some("gateway failure")

\* C8: in every reachable state of the post cache total is at least 0.
C8_TotalNonNegative == blogs.pagination.total >= 0

Newer(row) == {r \in dbBlogs : r.created_at > row.created_at}

Lists == {op \in BagToSet(inflight) : op.type = "blogs/fetchBlogs"}

\* C9: the rows a fetchBlogs(page, limit) gets are the rows at offsets
\* (page-1)*limit .. page*limit-1 of the table ordered by creation time
\* descending, cut at the end of the table without an error; with limit 5 and
\* 47 rows, page 10 is fulfilled with the 2 oldest rows and no error, and
\* totalPages = ceil(47/5) is 10.
C9_PageRange ==
    /\ \A op \in Lists : op.stage = "answered" /\ op.data # <<>> =>
          LET rows == op.data[1]
              from == (op.arg.page - 1) * op.arg.limit
              rest == Cardinality(dbBlogs) - from
          IN /\ Len(rows) = (IF rest <= 0 THEN 0
                             ELSE IF rest < op.arg.limit THEN rest
                             ELSE op.arg.limit)
             /\ \A i \in 1..Len(rows) :
                   /\ rows[i] \in dbBlogs
                   /\ Cardinality(Newer(rows[i])) = from + i - 1
             /\ op.error = <<>>
    /\ /\ last.type = "blogs/fetchBlogs/fulfilled"
       /\ last.op.arg.page = 10 /\ last.op.arg.limit = 5
       /\ last.op.data # <<>>
       /\ Cardinality(dbBlogs) = 47
       => /\ Ids(blogs.blogs) = <<2, 1>>
          /\ blogs.error = <<>>
    /\ blogs.pagination.limit = 5 /\ blogs.pagination.total = 47
       => totalPages(blogs) = 10

\* page 10 of 47 posts arrives: the 2 oldest, no error, 10 pages
C9_Witness ==
    /\ last.type = "blogs/fetchBlogs/fulfilled"
    /\ blogs.pagination.page = 10
    /\ blogs.pagination.limit = 5
    /\ blogs.pagination.total = 47
    /\ Ids(blogs.blogs) = <<2, 1>>
    /\ blogs.error = <<>>
    /\ totalPages(blogs) = 10

\* C10: inside fetchBlogs a failed count query does not end the call: the list
\* query is sent all the same, and when it succeeds the call is fulfilled with
\* the rows it returned and total = 0; the call is rejected only by a failure
\* of the list query.
C10_CountFailureNotFatal ==
    /\ \A op \in Lists :
          /\ op.stage = "count" => op.calls = 1 /\ op.error = <<>>
          /\ op.stage # "count" => op.calls = 2
    /\ last.type = "blogs/fetchBlogs/fulfilled" /\ last.op.count = <<>>
       => /\ last.op.calls = 2
          /\ blogs.blogs = (IF last.op.data = <<>> THEN <<>> ELSE last.op.data[1])
          /\ blogs.pagination.total = 0
    /\ last.type = "blogs/fetchBlogs/rejected"
       => /\ last.op.calls = 2
          /\ last.op.stage = "answered"
          /\ last.op.data = <<>>

\* the count query failed and the list query answered: 5 rows, total 0
C10_Witness ==
    /\ last.type = "blogs/fetchBlogs/fulfilled"
    /\ last.op.count = <<>>
    /\ last.op.calls = 2
    /\ Len(blogs.blogs) = 5
    /\ blogs.pagination.total = 0

----------------------------------------------------------------------------
(* BlogList paging without waiting: the Previous and Next buttons stay
   enabled while a list is in flight, so lists for different pages race *)

Racing(A) ==
    dispatched < MaxLists /\ A /\ dispatched' = dispatched + 1 /\ UNCHANGED blogView

RaceInit ==
    /\ InitClient
    /\ dbBlogs = InitialBlogs(InitBlogs)
    /\ dbComments = {}
    /\ dbClock = InitBlogs + 1
    /\ gwSession = Null

RaceNext ==
    \/ Racing(BlogListEffect)
    \/ Racing(PageChange)
    \/ Gateway(GatewayFails)
    \/ Gateway(GatewayCount)
    \/ Gateway(GatewayList)
    \/ Gateway(GatewayGetSession)
    \/ Gateway(BlogSettle)
    \/ Gateway(CheckSessionSettle)

RaceSpec == RaceInit /\ [][RaceNext]_vars

\* C11: with lists for different pages in flight together, each fulfilled
\* list leaves the window and the total its own answer carried: the window is
\* the page that call asked for, whether or not that is the current page and
\* whether or not the call was the last one dispatched; the page field is not
\* touched.
C11_LastAnswerWins ==
    last.type = "blogs/fetchBlogs/fulfilled" =>
        LET from == (last.op.arg.page - 1) * last.op.arg.limit
        IN /\ Len(blogs.blogs) = (IF last.op.data = <<>> THEN 0 ELSE Len(last.op.data[1]))
           /\ \A i \in 1..Len(blogs.blogs) :
                 /\ blogs.blogs[i] = last.op.data[1][i]
                 /\ Cardinality(Newer(blogs.blogs[i])) = from + i - 1
           /\ blogs.pagination.total =
                 (IF last.op.count = <<>> THEN 0 ELSE Cardinality(dbBlogs))
           /\ blogs.pagination.page = Pre.blogs.pagination.page

\* page 1, then Next, then Previous; the second page-1 answer is applied, and
\* after it the page-2 answer: the window shows page 2 under page = 1
C11_Witness ==
    /\ last.type = "blogs/fetchBlogs/fulfilled"
    /\ last.op.arg.page = 2
    /\ blogs.pagination.page = 1
    /\ dispatched = 3
    /\ Lists = {}
    /\ ~Pre.blogs.loading
    /\ Ids(Pre.blogs.blogs) = <<6, 5, 4, 3, 2>>
    /\ Ids(blogs.blogs) = <<1>>
    /\ blogs.pagination.total = 6

Suffixed(types, suffix) == {t \o suffix : t \in types}

\* C15: for every thunk of the post cache and of the comment cache, pending
\* sets loading = true and error = null; fulfilled and rejected set loading =
\* false; rejected sets error to its message; fulfilled leaves error as it
\* was; nothing but a rejected completion puts a message into error.
C15_LoadingAndError ==
    /\ last.type \in Suffixed(BlogTypes, "/pending")
       => blogs.loading /\ blogs.error = <<>>
    /\ last.type \in Suffixed(CommentTypes, "/pending")
       => comments.loading /\ comments.error = <<>>
    /\ last.type \in Suffixed(BlogTypes, "/fulfilled")
       => ~blogs.loading /\ blogs.error = Pre.blogs.error
    /\ last.type \in Suffixed(CommentTypes, "/fulfilled")
       => ~comments.loading /\ comments.error = Pre.comments.error
    /\ last.type \in Suffixed(BlogTypes, "/rejected")
       => ~blogs.loading /\ blogs.error = last.op.error /\ blogs.error # <<>>
    /\ last.type \in Suffixed(CommentTypes, "/rejected")
       => ~comments.loading /\ comments.error = last.op.error /\ comments.error # <<>>
    /\ last.type # "" /\ blogs.error # <<>> /\ blogs.error # Pre.blogs.error
       => last.type \in Suffixed(BlogTypes, "/rejected")
    /\ last.type # "" /\ comments.error # <<>> /\ comments.error # Pre.comments.error
       => last.type \in Suffixed(CommentTypes, "/rejected")

\* a get-by-id is fulfilled after another post operation failed: loading
\* falls, the message of the failure stays
C15_Witness ==
    /\ last.type = "blogs/fetchBlogById/fulfilled"
    /\ Pre.blogs.error = Some("gateway failure")
    /\ blogs.error = Some("gateway failure")
    /\ ~blogs.loading
    /\ blogs.currentBlog # <<>>

----------------------------------------------------------------------------
(* BlogView: mounting fetches the post and its comments, leaving clears both
   slots; CommentForm.handleSubmit clears the comment error before its upload *)

\* useEffect: dispatch(fetchBlogById(id)); dispatch(fetchComments(id))
BlogViewEffect(id) ==
    LET getById == NewOp("blogs/fetchBlogById", [NoArg EXCEPT !.id = id])
        list == NewOp("comments/fetchComments", [NoArg EXCEPT !.blogId = id])
    IN /\ blogs' = blogPending(blogs)
       /\ comments' = commentPending(comments)
       /\ inflight' = inflight (+) SetToBag({getById}) (+) SetToBag({list})
       /\ last' = [type |-> list.type \o "/pending", op |-> list,
                   pre |-> Store(auth, blogPending(blogs), comments)]
       /\ blogView' = [id |-> id, mounted |-> TRUE]
       /\ UNCHANGED <<auth, gateway>>

\* a cleanup that also drops the answers still awaited
BlogViewCleanupCancelling ==
    /\ blogs' = clearCurrentBlog(blogs)
    /\ comments' = clearComments(comments)
    /\ inflight' = [op \in {o \in DOMAIN inflight : o.type = "auth/checkSession"}
                      |-> inflight[op]]
    /\ last' = [type |-> "comments/clearComments", op |-> NoOp,
                pre |-> Store(auth, clearCurrentBlog(blogs), comments)]
    /\ blogView' = [blogView EXCEPT !.mounted = FALSE]
    /\ UNCHANGED <<auth, gateway, dispatched>>

\* the effect's cleanup: dispatch(clearCurrentBlog()); dispatch(clearComments())
BlogViewCleanup ==
    /\ blogs' = clearCurrentBlog(blogs)
    /\ comments' = clearComments(comments)
    /\ last' = [type |-> "comments/clearComments", op |-> NoOp,
                pre |-> Store(auth, clearCurrentBlog(blogs), comments)]
    /\ blogView' = [blogView EXCEPT !.mounted = FALSE]
    /\ UNCHANGED <<auth, gateway, inflight, dispatched>>

Visiting(A) == dispatched < MaxViews /\ A /\ dispatched' = dispatched + 1

ViewInit ==
    /\ InitClient
    /\ dbBlogs = InitialBlogs(InitBlogs)
    /\ dbComments = InitialComments(InitBlogs)
    /\ dbClock = InitBlogs + 1
    /\ gwSession \in {Null, Some(SessionOf("u1"))}

ViewNext ==
    \/ \E id \in TargetIds : Visiting(BlogViewEffect(id))
    \/ BlogViewCleanup
    \/ CommentClearError
    \/ Gateway(GatewayFails)
    \/ Gateway(GatewayGetBlog)
    \/ Gateway(GatewayListComments)
    \/ Gateway(GatewayGetSession)
    \/ Gateway(BlogSettle)
    \/ Gateway(CommentSettle)
    \/ Gateway(CheckSessionSettle)

ViewSpec == ViewInit /\ [][ViewNext]_vars

PlainTypes == {"blogs/clearCurrentBlog", "blogs/clearError", "blogs/setPage",
               "comments/clearComments", "comments/clearError"}

\* whatever the caches hold, an answered thunk can be reconciled, and a
\* fulfilled get-by-id or comment list puts its answer into the cache
C13_Reconciles ==
    /\ \A op \in BagToSet(inflight) : Settled(op) =>
          ENABLED (BlogSettle(op) \/ CommentSettle(op) \/ CheckSessionSettle(op))
    /\ last.type = "blogs/fetchBlogById/fulfilled"
       => blogs.currentBlog = <<Returned>>
    /\ last.type = "comments/fetchComments/fulfilled"
       => comments.comments = (IF last.op.data = <<>> THEN <<>> ELSE last.op.data[1])

\* a plain reducer takes nothing out of flight
C13_KeepsInflight == last'.type \in PlainTypes => inflight' = inflight

\* C13: nothing cancels a thunk. A plain reducer (clearCurrentBlog,
\* clearComments, setPage, clearError) leaves every thunk in flight, every
\* answered thunk can be reconciled, and its reconciliation is applied to
\* whatever the cache holds then: fetchBlogById.fulfilled after
\* clearCurrentBlog sets currentBlog to the fetched post, fetchComments.fulfilled
\* after clearComments refills the comments.
C13_NoCancellation == []C13_Reconciles /\ [][C13_KeepsInflight]_vars

\* one visit of BlogView: the post arrived, the view was left (both slots
\* cleared), then the comment list arrived and refilled the collection
C13_Witness ==
    /\ last.type = "comments/fetchComments/fulfilled"
    /\ dispatched = 1
    /\ Pre.comments.comments = <<>>
    /\ Len(comments.comments) = 2
    /\ blogs.currentBlog = <<>>
    /\ ~blogs.loading
    /\ blogs.error = <<>>
    /\ \A op \in BagToSet(inflight) : op.type \notin BlogTypes

\* C14: after clearComments the comment collection is empty and the loading
\* flag is not set, also while a fetchComments or a comment mutation is in
\* flight.
C14_ClearedAndIdle ==
    last.type = "comments/clearComments" =>
        comments.comments = <<>> /\ ~comments.loading

----------------------------------------------------------------------------
(* The session: register, login and logout next to the checkSession that App
   dispatched, and creates that capture the identity *)

registerUser(email) ==
    /\ Launch(NewOp("auth/register", [NoArg EXCEPT !.email = email]))
    /\ auth' = authPending(auth)
    /\ UNCHANGED <<blogs, comments, gateway>>

loginUser(email) ==
    /\ Launch(NewOp("auth/login", [NoArg EXCEPT !.email = email]))
    /\ auth' = authPending(auth)
    /\ UNCHANGED <<blogs, comments, gateway>>

logoutUser ==
    /\ Launch(NewOp("auth/logout", NoArg))
    /\ auth' = logoutUserPending(auth)
    /\ UNCHANGED <<blogs, comments, gateway>>

\* supabase.auth.signUp: the new user, with a session unless the address has
\* to be confirmed first; a returned session becomes the persisted one
GatewaySignUp(op) ==
    /\ op.type = "auth/register" /\ op.stage = "query"
    /\ \E session \in {Some(SessionOf(op.arg.email)), Null} :
          /\ Advance(op, Answered(op, Some(<<[user |-> Some([id |-> op.arg.email]),
                                              session |-> session]>>)))
          /\ gwSession' = IF IsNull(session) THEN gwSession ELSE session
    /\ UNCHANGED <<auth, blogs, comments, dbBlogs, dbComments, dbClock, dispatched, blogView>>
    /\ last' = NoLast

\* supabase.auth.signInWithPassword: the user and a new session
GatewaySignIn(op) ==
    /\ op.type = "auth/login" /\ op.stage = "query"
    /\ Advance(op, Answered(op, Some(<<[user |-> Some([id |-> op.arg.email]),
                                        session |-> Some(SessionOf(op.arg.email))]>>)))
    /\ gwSession' = Some(SessionOf(op.arg.email))
    /\ UNCHANGED <<auth, blogs, comments, dbBlogs, dbComments, dbClock, dispatched, blogView>>
    /\ last' = NoLast

\* supabase.auth.signOut: the persisted session is removed; return null
GatewaySignOut(op) ==
    /\ op.type = "auth/logout" /\ op.stage = "query"
    /\ Advance(op, Answered(op, Null))
    /\ gwSession' = Null
    /\ UNCHANGED <<auth, blogs, comments, dbBlogs, dbComments, dbClock, dispatched, blogView>>
    /\ last' = NoLast

AuthTypes == {"auth/register", "auth/login", "auth/logout"}

authFulfilledBy(state, op) ==
    IF op.type = "auth/logout" THEN logoutUserFulfilled(state)
    ELSE authFulfilled(state, SinglePayload(op))

\* a settle whose fulfilled logout also empties the post cache
AuthSettleResetting(op) ==
    /\ op.type \in AuthTypes /\ Settled(op)
    /\ Finish(op)
    /\ auth' = IF IsNull(op.error) THEN authFulfilledBy(auth, op)
               ELSE authRejected(auth, RejectedPayload(op))
    /\ blogs' = IF IsNull(op.error) /\ op.type = "auth/logout"
                THEN blogInitialState ELSE blogs
    /\ UNCHANGED <<comments, gateway, dispatched, blogView>>

AuthSettle(op) ==
    /\ op.type \in AuthTypes /\ Settled(op)
    /\ Finish(op)
    /\ auth' = IF IsNull(op.error) THEN authFulfilledBy(auth, op)
               ELSE authRejected(auth, RejectedPayload(op))
    /\ UNCHANGED <<blogs, comments, gateway, dispatched, blogView>>

\* Register.handleSubmit with passwords that differ: dispatch(clearError()), return
AuthClearError ==
    /\ auth' = authClearError(auth)
    /\ Reduced("auth/clearError", NoOp)
    /\ UNCHANGED <<blogs, comments, gateway, inflight, dispatched, blogView>>

SessionInit ==
    /\ InitClient
    /\ dbBlogs = InitialBlogs(InitBlogs)
    /\ dbComments = InitialComments(InitBlogs)
    /\ dbClock = InitBlogs + 1
    /\ gwSession \in {Null, Some(SessionOf("u1"))}

SessionNext ==
    \/ \E email \in Users : Budgeted(registerUser(email))
    \/ \E email \in Users : Budgeted(loginUser(email))
    \/ Budgeted(logoutUser)
    \/ \E title \in Titles : Budgeted(createBlog(title))
    \/ \E content \in Titles : Budgeted(createComment(InitBlogs, content))
    \/ AuthClearError
    \/ Gateway(GatewayFails)
    \/ Gateway(GatewaySignUp)
    \/ Gateway(GatewaySignIn)
    \/ Gateway(GatewaySignOut)
    \/ Gateway(GatewayGetSession)
    \/ Gateway(GatewayInsertBlog)
    \/ Gateway(GatewayInsertComment)
    \/ Gateway(AuthSettle)
    \/ Gateway(CheckSessionSettle)
    \/ Gateway(BlogSettle)
    \/ Gateway(CommentSettle)

SessionSpec == SessionInit /\ [][SessionNext]_vars

Creates == {"blogs/createBlog", "comments/createComment"}

\* C12: a create reads auth.user once, in the step that dispatches it and
\* sends the insert; the row the gateway stores carries that id; when the
\* answer comes back the session store is not read again, so after a logout
\* that completed in between the create is still fulfilled and prepended
\* (total + 1 for posts), and it is never rejected for a missing identity.
C12_IdentityCapturedOnce ==
    /\ last.type \in Suffixed(Creates, "/pending") /\ Pre.auth.user # <<>>
       => /\ last.op.userId = <<Pre.auth.user[1].id>>
          /\ last.op.stage = "query" /\ last.op.calls = 1
    /\ \A op \in BagToSet(inflight) :
          op.type \in Creates /\ op.userId # <<>> =>
             /\ op.calls = 1
             /\ op.error # <<>> => op.error[1] \in GatewayErrors
             /\ op.data # <<>> => op.data[1][1].user_id = op.userId[1]
    /\ last.type = "blogs/createBlog/fulfilled"
       => /\ Returned.user_id = last.op.userId[1]
          /\ blogs.blogs = <<Returned>> \o Pre.blogs.blogs
          /\ blogs.pagination.total = Pre.blogs.pagination.total + 1
    /\ last.type = "comments/createComment/fulfilled"
       => /\ Returned.user_id = last.op.userId[1]
          /\ comments.comments = <<Returned>> \o Pre.comments.comments
    /\ last.type \in Suffixed(Creates, "/rejected") /\ last.op.userId # <<>>
       => last.op.error[1] \in GatewayErrors

\* u1 dispatched a createBlog, the logout completed, then the insert was
\* answered: the post of u1 is prepended while nobody is signed in
C12_Witness ==
    /\ last.type = "blogs/createBlog/fulfilled"
    /\ Pre.auth.user = <<>>
    /\ auth.user = <<>>
    /\ ~auth.isAuthenticated
    /\ gwSession = <<>>
    /\ last.op.userId = <<"u1">>
    /\ blogs.blogs[1].user_id = "u1"
    /\ blogs.pagination.total = 1

SessionTypes == AuthTypes \cup {"auth/checkSession"}

Identity(state) ==
    [user |-> state.user, session |-> state.session,
     isAuthenticated |-> state.isAuthenticated]

\* C16: after the pending action of register, login, logout or checkSession
\* the error of the session store is null.
C16_PendingClearsError ==
    last.type \in Suffixed(SessionTypes, "/pending") => auth.error = <<>>

\* C17: after a register, login, logout or checkSession is rejected with
\* message m, the error of the session store is m.
C17_RejectedSetsError ==
    last.type \in Suffixed(SessionTypes, "/rejected") => auth.error = last.op.error

\* C18: when register or login is fulfilled, user and session are the
\* returned ones and isAuthenticated says whether a session was returned; when
\* it is rejected, and when it is dispatched, user, session and
\* isAuthenticated stay what they were, and the rejection's message is in
\* error.
C18_SignInReplacesOrKeeps ==
    LET types == {"auth/register", "auth/login"}
    IN /\ last.type \in Suffixed(types, "/fulfilled")
          => /\ auth.user = Returned.user
             /\ auth.session = Returned.session
             /\ auth.isAuthenticated = (Returned.session # <<>>)
       /\ last.type \in Suffixed(types, "/pending")
          => Identity(auth) = Identity(Pre.auth)
       /\ last.type \in Suffixed(types, "/rejected")
          => /\ Identity(auth) = Identity(Pre.auth)
             /\ auth.error = last.op.error /\ auth.error # <<>>

\* u1 is signed in and registers u2, whose address has to be confirmed: the
\* user is replaced, the session is gone, isAuthenticated is false
C18_Witness ==
    /\ last.type = "auth/register/fulfilled"
    /\ Pre.auth.user = <<[id |-> "u1"]>>
    /\ Pre.auth.isAuthenticated
    /\ auth.user = <<[id |-> "u2"]>>
    /\ auth.session = <<>>
    /\ ~auth.isAuthenticated

\* C19: when logout is fulfilled, user and session are null and
\* isAuthenticated is false; when it is dispatched and when it is rejected,
\* user, session and isAuthenticated stay what they were, and the rejection's
\* message is in error.
C19_LogoutClearsOrKeeps ==
    /\ last.type = "auth/logout/fulfilled"
       => Identity(auth) = Identity(authInitialState)
    /\ last.type = "auth/logout/pending"
       => Identity(auth) = Identity(Pre.auth)
    /\ last.type = "auth/logout/rejected"
       => /\ Identity(auth) = Identity(Pre.auth)
          /\ auth.error = last.op.error /\ auth.error # <<>>

\* the logout of u1 fails at the gateway: u1 stays signed in, the message is kept
C19_Witness ==
    /\ last.type = "auth/logout/rejected"
    /\ auth.user = <<[id |-> "u1"]>>
    /\ auth.session # <<>>
    /\ auth.isAuthenticated
    /\ auth.error = <<"gateway failure">>
    /\ ~auth.loading

\* C20: when checkSession is fulfilled, user, session and isAuthenticated are
\* those of the session the lookup returned, whatever the store held: a
\* signed-in state is overwritten with the empty one when the lookup found no
\* session, also when a login dispatched after checkSession was fulfilled
\* before it.
C20_CheckSessionOverwrites ==
    last.type = "auth/checkSession/fulfilled" =>
        /\ auth.session = Returned.session
        /\ auth.user = (IF Returned.session = <<>> THEN <<>>
                        ELSE <<Returned.session[1].user>>)
        /\ auth.isAuthenticated = (Returned.session # <<>>)
        /\ auth.loading = Pre.auth.loading
        /\ auth.error = Pre.auth.error

\* the lookup found no session, a login was dispatched and fulfilled, then
\* the lookup's answer is applied: the store is signed out over a live session
C20_Witness ==
    /\ last.type = "auth/checkSession/fulfilled"
    /\ dispatched = 1
    /\ Pre.auth.user = <<[id |-> "u2"]>>
    /\ Pre.auth.isAuthenticated
    /\ gwSession = <<SessionOf("u2")>>
    /\ auth.user = <<>>
    /\ auth.session = <<>>
    /\ ~auth.isAuthenticated

\* C21: isAuthenticated goes from true to false only by a fulfilled
\* checkSession or a fulfilled logout, never by the completion of a register
\* or a login.
C21_DowngradeOnlyByLookupOrLogout ==
    last.type # "" /\ Pre.auth.isAuthenticated /\ ~auth.isAuthenticated
    => last.type \in {"auth/checkSession/fulfilled", "auth/logout/fulfilled"}

SessionActions == Suffixed(SessionTypes, "/pending")
                  \cup Suffixed(SessionTypes, "/fulfilled")
                  \cup Suffixed(SessionTypes, "/rejected")
                  \cup {"auth/clearError"}

CacheTypes == BlogTypes \cup CommentTypes

CacheActions == Suffixed(CacheTypes, "/pending")
                \cup Suffixed(CacheTypes, "/fulfilled")
                \cup Suffixed(CacheTypes, "/rejected")
                \cup PlainTypes

\* C22: no action of the session store (register, login, logout,
\* checkSession, clearError) changes a field of the post cache or of the
\* comment cache, and no action of the post cache or of the comment cache
\* changes a field of the session store.
C22_StoresFramed ==
    /\ last.type \in SessionActions
       => blogs = Pre.blogs /\ comments = Pre.comments
    /\ last.type \in CacheActions
       => auth = Pre.auth

\* u1 created a post, then logged out: the session store is empty, the post
\* cache still holds the post and its total
C22_Witness ==
    /\ last.type = "auth/logout/fulfilled"
    /\ Pre.auth.user = <<[id |-> "u1"]>>
    /\ auth.user = <<>>
    /\ Len(blogs.blogs) = 1
    /\ blogs.blogs[1].user_id = "u1"
    /\ blogs.pagination.total = 1

\* C30: in every reachable state of the session store isAuthenticated is true
\* exactly when session is not null.
C30_AuthenticatedIffSession == auth.isAuthenticated = (auth.session # <<>>)

\* a register answered with a user and no session: a user is held, no
\* session, isAuthenticated false
C30_Witness ==
    /\ last.type = "auth/register/fulfilled"
    /\ auth.user # <<>>
    /\ auth.session = <<>>
    /\ ~auth.isAuthenticated
    /\ gwSession # <<>>

\* the post with this id in the window before the action belongs to somebody
\* other than the signed-in user
OthersPost(id) ==
    /\ Pre.auth.user # <<>>
    /\ \E i \in 1..Len(Pre.blogs.blogs) :
          /\ Pre.blogs.blogs[i].id = id
          /\ Pre.blogs.blogs[i].user_id # Pre.auth.user[1].id

\* C23: ownership blocks nothing. An updateBlog or deleteBlog of a post whose
\* owner is not the signed-in user sends its request like any other, and when
\* the gateway answers without error it is reconciled like an owner's: the
\* entry is replaced or removed, total drops by one on delete, the focused
\* post follows when its id matches.
C23_OwnershipNotEnforced ==
    /\ last.type \in {"blogs/updateBlog/pending", "blogs/deleteBlog/pending"}
       => last.op.stage = "query" /\ last.op.calls = 1 /\ last.op.error = <<>>
    /\ last.type = "blogs/deleteBlog/fulfilled" /\ OthersPost(last.op.arg.id)
       => /\ ~HasId(blogs.blogs, last.op.arg.id)
          /\ Len(blogs.blogs) = Len(Pre.blogs.blogs) - 1
          /\ blogs.pagination.total = Pre.blogs.pagination.total - 1
          /\ Pre.blogs.currentBlog # <<>> /\ Pre.blogs.currentBlog[1].id = last.op.arg.id
             => blogs.currentBlog = <<>>
    /\ last.type = "blogs/updateBlog/fulfilled" /\ OthersPost(last.op.arg.id)
       => /\ \E i \in 1..Len(blogs.blogs) : blogs.blogs[i] = Returned
          /\ Returned.title = last.op.arg.title
          /\ Returned.user_id # Pre.auth.user[1].id
          /\ Pre.blogs.currentBlog # <<>> /\ Pre.blogs.currentBlog[1].id = last.op.arg.id
             => blogs.currentBlog = <<Returned>>

\* u1 deletes the newest post, which is u2's, from a listed window
C23_Witness ==
    /\ last.type = "blogs/deleteBlog/fulfilled"
    /\ Pre.auth.user = <<[id |-> "u1"]>>
    /\ Len(Pre.blogs.blogs) = 5
    /\ Pre.blogs.blogs[1].id = InitBlogs
    /\ Pre.blogs.blogs[1].user_id = "u2"
    /\ last.op.arg.id = InitBlogs
    /\ Len(blogs.blogs) = 4
    /\ blogs.pagination.total = InitBlogs - 1

WriteTypes == {"blogs/createBlog", "blogs/updateBlog", "blogs/deleteBlog",
               "comments/createComment", "comments/updateComment",
               "comments/deleteComment"}

\* a write has sent one request, or none when it failed the identity check
C25_OneRequest ==
    /\ \A op \in BagToSet(inflight) : op.type \in WriteTypes =>
          op.calls = (IF op.stage = "thrown" THEN 0 ELSE 1)
    /\ last.type \in Suffixed(WriteTypes, "/fulfilled")
                     \cup Suffixed(WriteTypes, "/rejected")
       => last.op.calls = (IF last.op.stage = "thrown" THEN 0 ELSE 1)

\* the completion of a write takes it out of flight and puts nothing in
C25_NoFollowUp ==
    last'.type \in Suffixed(WriteTypes, "/fulfilled")
                    \cup Suffixed(WriteTypes, "/rejected")
    => inflight' = inflight (-) SetToBag({last'.op})

\* C25: a create, update or delete that got past the identity check sends
\* exactly one request to the gateway: a failed one is not sent again, and its
\* completion, fulfilled or rejected, dispatches no list, count or get to
\* fetch the cache again.
C25_ExactlyOneCall == []C25_OneRequest /\ [][C25_NoFollowUp]_vars

\* an update failed at the gateway after its one request; no write is in flight
C25_Witness ==
    /\ last.type = "blogs/updateBlog/rejected"
    /\ last.op.calls = 1
    /\ last.op.error = <<"gateway failure">>
    /\ dispatched = 1
    /\ \A op \in BagToSet(inflight) : op.type \notin CacheTypes

\* C28: when a fetchComments is fulfilled, the comment collection is exactly
\* the sequence the gateway returned for that post (empty when it returned no
\* data); no comment of the previous collection stays unless it was returned.
C28_CommentListReplaces ==
    last.type = "comments/fetchComments/fulfilled" =>
        LET returned == IF last.op.data = <<>> THEN <<>> ELSE last.op.data[1]
        IN /\ comments.comments = returned
           /\ \A i \in 1..Len(returned) : returned[i].blog_id = last.op.arg.blogId
           /\ \A i \in 1..Len(Pre.comments.comments) :
                 ~HasId(returned, Pre.comments.comments[i].id)
                    => ~HasId(comments.comments, Pre.comments.comments[i].id)

\* a list answered with no data arrives over a collection of two comments:
\* neither is kept
C28_Witness ==
    /\ last.type = "comments/fetchComments/fulfilled"
    /\ last.op.data = <<>>
    /\ Len(Pre.comments.comments) = 2
    /\ comments.comments = <<>>
    /\ ~comments.loading

\* C29: a fulfilled updateComment keeps the length and the order of ids of the
\* collection and replaces only the entry with the returned id (nothing
\* changes when no entry has it); a fulfilled deleteComment removes every
\* entry with the given id and keeps the others in their order (nothing
\* changes when no entry has it).
C29_CommentWritesTouchOneId ==
    /\ last.type = "comments/updateComment/fulfilled" =>
          /\ Len(comments.comments) = Len(Pre.comments.comments)
          /\ Ids(comments.comments) = Ids(Pre.comments.comments)
          /\ \A i \in 1..Len(comments.comments) :
                comments.comments[i] =
                   (IF Pre.comments.comments[i].id = Returned.id
                    THEN Returned ELSE Pre.comments.comments[i])
          /\ ~HasId(Pre.comments.comments, Returned.id)
             => comments.comments = Pre.comments.comments
    /\ last.type = "comments/deleteComment/fulfilled" =>
          LET keep(c) == c.id # last.op.arg.id
          IN /\ comments.comments = SelectSeq(Pre.comments.comments, keep)
             /\ ~HasId(comments.comments, last.op.arg.id)
             /\ ~HasId(Pre.comments.comments, last.op.arg.id)
                => comments.comments = Pre.comments.comments

\* the newer of two listed comments is updated in place
C29_Witness ==
    /\ last.type = "comments/updateComment/fulfilled"
    /\ Len(Pre.comments.comments) = 2
    /\ Ids(comments.comments) = <<2, 1>>
    /\ Pre.comments.comments[1].content = "A"
    /\ comments.comments[1].content = "B"
    /\ comments.comments[2] = Pre.comments.comments[2]

\* C26: handlePageChange(p) changes the page only to a p with 1 <= p <=
\* ceil(total / limit), taken from the total cached when it is called; with
\* the page changed only this way from page 1 the page is at least 1 in every
\* state; the setPage reducer stores any value it is given and nothing else.
C26_PageGuarded ==
    /\ blogs.pagination.page >= 1
    /\ last.type # "" /\ blogs.pagination.page # Pre.blogs.pagination.page
       => /\ last.type = "blogs/fetchBlogs/pending"
          /\ blogs.pagination.page <=
                Ceil(Pre.blogs.pagination.total, Pre.blogs.pagination.limit)
          /\ last.op.arg.page = blogs.pagination.page
    /\ \A p \in {-1, 0, PagingRows + 1} :
          setPage(blogs, p) = [blogs EXCEPT !.pagination.page = p]

\* Next on page 9 of 10: the page becomes 10, the last one the guard lets through
C26_Witness ==
    /\ last.type = "blogs/fetchBlogs/pending"
    /\ Pre.blogs.pagination.page = 9
    /\ blogs.pagination.page = 10
    /\ totalPages(Pre.blogs) = 10
    /\ last.op.arg.page = 10

----------------------------------------------------------------------------
(* The focused post: BlogList lists, the post pages fetch one post, clear the
   slot when they are left, and BlogView deletes *)

FocusNext ==
    \/ Budgeted(BlogListEffect)
    \/ \E id \in TargetIds : Budgeted(fetchBlogById(id))
    \/ \E id \in TargetIds : Budgeted(deleteBlog(id))
    \/ ClearCurrentBlog
    \/ Gateway(GatewayFails)
    \/ Gateway(GatewayCount)
    \/ Gateway(GatewayList)
    \/ Gateway(GatewayGetBlog)
    \/ Gateway(GatewayDeleteBlog)
    \/ Gateway(GatewayGetSession)
    \/ Gateway(BlogSettle)
    \/ Gateway(CheckSessionSettle)

FocusSpec == Init /\ [][FocusNext]_vars

\* C24: a fulfilled fetchBlogById sets the focused post to the fetched one and
\* leaves the window, the total and the page as they were; the focused post
\* goes from a post to null only by clearCurrentBlog or by a fulfilled
\* deleteBlog of its id.
C24_FocusSlotOnly ==
    /\ last.type = "blogs/fetchBlogById/fulfilled"
       => /\ blogs.currentBlog = <<Returned>>
          /\ blogs.blogs = Pre.blogs.blogs
          /\ blogs.pagination = Pre.blogs.pagination
    /\ last.type # "" /\ Pre.blogs.currentBlog # <<>> /\ blogs.currentBlog = <<>>
       => \/ last.type = "blogs/clearCurrentBlog"
          \/ /\ last.type = "blogs/deleteBlog/fulfilled"
             /\ last.op.arg.id = Pre.blogs.currentBlog[1].id

\* a post is fetched over a listed window: the empty slot is filled, the five
\* entries and the total stay
C24_Witness ==
    /\ last.type = "blogs/fetchBlogById/fulfilled"
    /\ Pre.blogs.currentBlog = <<>>
    /\ blogs.currentBlog # <<>>
    /\ Ids(blogs.blogs) = Ids(Pre.blogs.blogs)
    /\ Len(blogs.blogs) = 5
    /\ blogs.pagination.total = InitBlogs

----------------------------------------------------------------------------
(* Editing with a client clock that may be behind or ahead of the gateway's:
   BlogEdit and CommentForm send updated_at: new Date().toISOString() *)

\* what the client's clock may read when an update is sent: before every
\* creation time of the table, or after
SkewedTimes == {0, 100}

ClockNext ==
    \/ \E id \in TargetIds : Budgeted(fetchBlogById(id))
    \/ Budgeted(fetchComments(InitBlogs))
    \/ \E title \in Titles : Budgeted(createBlog(title))
    \/ \E id \in TargetIds, title \in Titles, now \in SkewedTimes :
          Budgeted(updateBlog(id, title, now))
    \/ \E id \in CommentIds, content \in Titles, now \in SkewedTimes :
          Budgeted(updateComment(id, content, now))
    \/ Gateway(GatewayFails)
    \/ Gateway(GatewayGetBlog)
    \/ Gateway(GatewayListComments)
    \/ Gateway(GatewayInsertBlog)
    \/ Gateway(GatewayUpdateBlog)
    \/ Gateway(GatewayUpdateComment)
    \/ Gateway(GatewayGetSession)
    \/ Gateway(BlogSettle)
    \/ Gateway(CommentSettle)
    \/ Gateway(CheckSessionSettle)

ClockSpec == Init /\ [][ClockNext]_vars

NotBeforeCreation(arr) ==
    \A i \in 1..Len(arr) : arr[i].updated_at >= arr[i].created_at

\* C27: every post in the window or in the focused slot and every comment in
\* the collection has updated_at >= created_at, whatever the client's clock
\* read when an update was sent, and a post or comment that was just created
\* has the two equal.
C27_ModifiedNotBeforeCreated ==
    /\ NotBeforeCreation(blogs.blogs)
    /\ NotBeforeCreation(blogs.currentBlog)
    /\ NotBeforeCreation(comments.comments)
    /\ last.type \in Suffixed(Creates, "/fulfilled")
       => Returned.updated_at = Returned.created_at

----------------------------------------------------------------------------
(* Creates and the authenticated flag *)

\* C31: while isAuthenticated is false a dispatched createBlog or
\* createComment is rejected before any request: it throws 'User not
\* authenticated' and sends no insert, also in the state a register leaves
\* that returned a user and no session.
C31_CreateNeedsAuthenticatedFlag ==
    last.type \in Suffixed(Creates, "/pending") /\ ~Pre.auth.isAuthenticated
       => /\ last.op.stage = "thrown"
          /\ last.op.calls = 0
          /\ last.op.error = Some(NotAuthenticated)

----------------------------------------------------------------------------
(* Ids in the caches *)

DistinctIds(arr) ==
    \A i, j \in 1..Len(arr) : arr[i].id = arr[j].id => i = j

\* C32: no two posts of the window have the same id and no two comments of
\* the collection have the same id, however the answers of list and create
\* calls interleave (every list answer has distinct ids, every insert returns
\* a fresh id).
C32_NoDuplicateIds ==
    /\ DistinctIds(blogs.blogs)
    /\ DistinctIds(comments.comments)

----------------------------------------------------------------------------
(* BlogView across routes: the page is opened, the route's id changes while
   the page stays mounted, the page is left; the owner's Delete button and
   the comment form act on what the page shows *)

\* routes opened and comments submitted on BlogView in one run
MaxRoutes == 2

Routing(A) == dispatched < MaxRoutes /\ A /\ dispatched' = dispatched + 1

\* /blogs/:id is opened from another page
BlogViewMount(id) == ~blogView.mounted /\ BlogViewEffect(id)

\* the id of the route changes under the mounted page: the effect's cleanup
\* runs, then the effect with the new id
BlogViewReroute(id) ==
    LET getById == NewOp("blogs/fetchBlogById", [NoArg EXCEPT !.id = id])
        list == NewOp("comments/fetchComments", [NoArg EXCEPT !.blogId = id])
        cleared == Store(auth, blogPending(clearCurrentBlog(blogs)),
                         clearComments(comments))
    IN /\ blogView.mounted /\ id # blogView.id
       /\ blogs' = cleared.blogs
       /\ comments' = commentPending(cleared.comments)
       /\ inflight' = inflight (+) SetToBag({getById}) (+) SetToBag({list})
       /\ last' = [type |-> list.type \o "/pending", op |-> list, pre |-> cleared]
       /\ blogView' = [id |-> id, mounted |-> TRUE]
       /\ UNCHANGED <<auth, gateway>>

\* the page is left for another one
BlogViewUnmount == blogView.mounted /\ BlogViewCleanup /\ UNCHANGED dispatched

\* the article is rendered: not loading, and a post in the focused slot
ArticleShown == blogView.mounted /\ ~blogs.loading /\ ~IsNull(blogs.currentBlog)

\* const isOwner = currentBlog && user && currentBlog.user_id === user.id
isOwner ==
    /\ ~IsNull(blogs.currentBlog) /\ ~IsNull(auth.user)
    /\ Get(blogs.currentBlog).user_id = Get(auth.user).id

\* the Delete button, rendered for the owner: dispatch(deleteBlog(id)) with
\* the id of the route
handleDelete ==
    /\ ArticleShown /\ isOwner
    /\ Launch(NewOp("blogs/deleteBlog", [NoArg EXCEPT !.id = blogView.id]))
    /\ blogs' = blogPending(blogs)
    /\ UNCHANGED <<auth, comments, gateway, dispatched, blogView>>

\* handleDelete after its await: a fulfilled delete navigates to /blogs, which
\* unmounts the page
HandleDeleteSettle(op) ==
    LET left == IsNull(op.error) /\ blogView.mounted
        settled == IF IsNull(op.error) THEN blogFulfilled(blogs, op)
                   ELSE blogRejected(blogs, RejectedPayload(op))
    IN /\ op.type = "blogs/deleteBlog" /\ Settled(op)
       /\ Finish(op)
       /\ blogs' = IF left THEN clearCurrentBlog(settled) ELSE settled
       /\ comments' = IF left THEN clearComments(comments) ELSE comments
       /\ blogView' = IF left THEN [blogView EXCEPT !.mounted = FALSE] ELSE blogView
       /\ UNCHANGED <<auth, gateway, dispatched>>

\* the other thunks of the post cache settle as everywhere
RouteBlogSettle(op) == op.type # "blogs/deleteBlog" /\ BlogSettle(op)

\* the form under the article, rendered when isAuthenticated, with blogId =
\* currentBlog.id: dispatch(clearError()), then dispatch(createComment(...))
CommentFormSubmit(content) ==
    /\ ArticleShown /\ auth.isAuthenticated
    /\ Launch(CreateOp("comments/createComment",
                       [NoArg EXCEPT !.blogId = Get(blogs.currentBlog).id,
                                     !.title = content],
                       userIdOf(auth)))
    /\ comments' = commentPending(commentClearError(comments))
    /\ blogView' = blogView
    /\ UNCHANGED <<auth, blogs, gateway>>

RouteNext ==
    \/ \E id \in TargetIds : Routing(BlogViewMount(id))
    \/ \E id \in TargetIds : Routing(BlogViewReroute(id))
    \/ BlogViewUnmount
    \/ handleDelete
    \/ \E content \in Titles : Routing(CommentFormSubmit(content))
    \/ Gateway(GatewayGetBlog)
    \/ Gateway(GatewayListComments)
    \/ Gateway(GatewayDeleteBlog)
    \/ Gateway(GatewayInsertComment)
    \/ Gateway(GatewayGetSession)
    \/ Gateway(RouteBlogSettle)
    \/ Gateway(HandleDeleteSettle)
    \/ Gateway(CommentSettle)
    \/ Gateway(CheckSessionSettle)

RouteSpec == Init /\ [][RouteNext]_vars

\* C33: every comment in the collection belongs to the post BlogView shows:
\* its blog_id is the id the last fetchComments was dispatched with, also
\* when the answer of a fetchComments or createComment sent for an earlier
\* post arrives after the route changed.
C33_CommentsOfFocusedPost ==
    \A i \in 1..Len(comments.comments) :
        comments.comments[i].blog_id = blogView.id

\* C38: when handleDelete dispatches deleteBlog with the route's id, the
\* post with that id belongs to the signed-in user.
C38_DeleteOnlyOwnPost ==
    last.type = "blogs/deleteBlog/pending" =>
        \A row \in dbBlogs :
            row.id = last.op.arg.id => Some(row.user_id) = userIdOf(auth)

----------------------------------------------------------------------------
(* The loading flags and the thunks in flight *)

InFlight(types) == {op \in BagToSet(inflight) : op.type \in types}

\* C34: while the loading flag of the post cache is false no thunk of the
\* post cache is in flight, and the same for the comment cache, however the
\* thunks dispatched together interleave.
C34_IdleMeansNothingInFlight ==
    /\ ~blogs.loading => InFlight(BlogTypes) = {}
    /\ ~comments.loading => InFlight(CommentTypes) = {}

----------------------------------------------------------------------------
(* Every thunk settles: the gateway answers every request it was sent, and the
   continuation of an answered thunk runs *)

\* thunks the user dispatches in a run of the liveness specification
MaxPending == 1

Pending(A) ==
    /\ dispatched < MaxPending
    /\ A
    /\ dispatched' = dispatched + 1
    /\ UNCHANGED blogView

\* the gateway answers a request
Responds ==
    \/ Gateway(GatewayFails)
    \/ Gateway(GatewayCount)
    \/ Gateway(GatewayList)
    \/ Gateway(GatewayGetBlog)
    \/ Gateway(GatewayInsertBlog)
    \/ Gateway(GatewayUpdateBlog)
    \/ Gateway(GatewayDeleteBlog)
    \/ Gateway(GatewayListComments)
    \/ Gateway(GatewayInsertComment)
    \/ Gateway(GatewayUpdateComment)
    \/ Gateway(GatewayDeleteComment)
    \/ Gateway(GatewayGetSession)
    \/ Gateway(GatewaySignUp)
    \/ Gateway(GatewaySignIn)
    \/ Gateway(GatewaySignOut)

\* the thunk's continuation dispatches fulfilled or rejected
Settles ==
    \/ Gateway(BlogSettle)
    \/ Gateway(CommentSettle)
    \/ Gateway(AuthSettle)
    \/ Gateway(CheckSessionSettle)

LiveNext ==
    \/ Pending(BlogListEffect)
    \/ \E id \in TargetIds : Pending(fetchBlogById(id))
    \/ \E title \in Titles : Pending(createBlog(title))
    \/ \E id \in TargetIds, title \in Titles, now \in ClientTimes :
          Pending(updateBlog(id, title, now))
    \/ \E id \in TargetIds : Pending(deleteBlog(id))
    \/ Pending(fetchComments(InitBlogs))
    \/ \E content \in Titles : Pending(createComment(InitBlogs, content))
    \/ \E id \in CommentIds, content \in Titles, now \in ClientTimes :
          Pending(updateComment(id, content, now))
    \/ \E id \in CommentIds : Pending(deleteComment(id))
    \/ \E email \in Users : Pending(registerUser(email))
    \/ \E email \in Users : Pending(loginUser(email))
    \/ Pending(logoutUser)
    \/ Responds
    \/ Settles

LiveSpec == Init /\ [][LiveNext]_vars /\ WF_vars(Responds) /\ WF_vars(Settles)

\* a store with no thunk in flight is not loading
C35_IdleWhenSettled ==
    /\ InFlight(BlogTypes) = {} => ~blogs.loading
    /\ InFlight(CommentTypes) = {} => ~comments.loading
    /\ InFlight(SessionTypes) = {} => ~auth.loading

\* C35: when the gateway answers every request, every dispatched thunk is
\* settled after finitely many steps (its fulfilled or rejected action is
\* reduced and it is in flight no more), and whenever no thunk of a store
\* (session, posts, comments) is in flight the store's loading flag is false.
C35_EveryThunkSettles ==
    /\ []C35_IdleWhenSettled
    /\ \A types \in {BlogTypes, CommentTypes, SessionTypes} :
          (InFlight(types) # {}) ~> (InFlight(types) = {})

\* a logout was dispatched next to App's checkSession and both have settled:
\* nothing is in flight and no store is loading
C35_Witness ==
    /\ last.type = "auth/logout/fulfilled"
    /\ Pre.auth.loading
    /\ inflight = EmptyBag
    /\ dispatched = MaxPending
    /\ ~auth.loading /\ ~blogs.loading /\ ~comments.loading

----------------------------------------------------------------------------
(* The cached total next to the gateway's table: BlogList has listed page 1,
   then lists, page changes, creates and deletes of this client interleave;
   nobody else writes, and every count query is answered *)

\* the first list of BlogList: page 1 of the table, and its count
firstList ==
    [fetchBlogs(1, blogInitialState.pagination.limit) EXCEPT
        !.stage = "answered", !.calls = 2,
        !.count = Some(InitBlogs),
        !.data = Some(Range(OrderByCreatedDesc(InitialBlogs(InitBlogs)), 0,
                            blogInitialState.pagination.limit - 1))]

ListedInit ==
    /\ auth = authInitialState
    /\ blogs = fetchBlogsFulfilled(blogPending(blogInitialState),
                                   fetchBlogsPayload(firstList))
    /\ comments = commentInitialState
    /\ inflight = SetToBag({checkSession})
    /\ dispatched = 0
    /\ blogView = NoView
    /\ last = [type |-> "blogs/fetchBlogs/fulfilled", op |-> firstList,
               pre |-> Store(authInitialState, blogPending(blogInitialState),
                             commentInitialState)]
    /\ dbBlogs = InitialBlogs(InitBlogs)
    /\ dbComments = InitialComments(InitBlogs)
    /\ dbClock = InitBlogs + 1
    /\ gwSession = Some(SessionOf("u1"))

\* the count query answered with the number of rows
GatewayCountExact(op) ==
    /\ GatewayCount(op)
    /\ \A o \in BagToSet(inflight') :
          o.type = "blogs/fetchBlogs" /\ o.stage = "query" => ~IsNull(o.count)

TotalNext ==
    \/ Budgeted(BlogListEffect)
    \/ Budgeted(PageChange)
    \/ \E title \in Titles : Budgeted(createBlog(title))
    \/ \E id \in TargetIds : Budgeted(deleteBlog(id))
    \/ Gateway(GatewayCountExact)
    \/ Gateway(GatewayList)
    \/ Gateway(GatewayInsertBlog)
    \/ Gateway(GatewayDeleteBlog)
    \/ Gateway(GatewayGetSession)
    \/ Gateway(BlogSettle)
    \/ Gateway(CheckSessionSettle)

TotalSpec == ListedInit /\ [][TotalNext]_vars

\* C36: while total > 0 the current page is at most the number of pages,
\* ceil(total / limit), when the page is changed by handlePageChange only and
\* total by fulfilled lists, creates and deletes.
C36_PageWithinPages ==
    blogs.pagination.total > 0 => blogs.pagination.page <= totalPages(blogs)

\* C39: this client being the only writer and a list having succeeded,
\* whenever no thunk of the post cache is in flight the cached total is the
\* number of posts the gateway holds, however lists (count query, then list
\* query), creates and deletes and their answers interleave.
C39_TotalIsGatewayCount ==
    InFlight(BlogTypes) = {} => blogs.pagination.total = Cardinality(dbBlogs)

----------------------------------------------------------------------------
(* The order of the comment collection *)

\* C37: the comment collection is ordered by created_at, newest first, in
\* every reachable state, however the answers of list, create, update and
\* delete calls interleave (the gateway lists newest first and stamps inserts
\* in the order it processes them).
C37_CommentsNewestFirst ==
    \A i \in 1..(Len(comments.comments) - 1) :
        comments.comments[i].created_at >= comments.comments[i + 1].created_at

====
